---------------------------- MODULE Spec2Model ----------------------------
(***************************************************************************)
(* A model of the terminal video output driver video/out/vo_tct.c:         *)
(*   - rgb_to_x256: RGB24 to xterm-256 palette quantisation,               *)
(*   - best_fg_bg / guess_best_block_element: fitting a block glyph and    *)
(*     two colours to an 8x8 window of pixels,                             *)
(*   - write_plain / write_half_blocks / write_all_blocks: the byte stream *)
(*     a frame is rendered to,                                             *)
(*   - reconfig / draw_image / flip_page: the frame buffer over the calls  *)
(*     the video output core makes.                                        *)
(* Bytes are integers 0..255; a string is a sequence of bytes.  C's int    *)
(* division truncates toward zero (CDiv); every intermediate value of the  *)
(* modelled arithmetic is below 2^31, so no 32-bit operation wraps.        *)
(***************************************************************************)
EXTENDS Integers, Sequences, FiniteSets

VARIABLES
    rgb,         \* the (r, g, b) argument of rgb_to_x256
    x256,        \* its return value; NoResult before the call
    win_pixels,  \* the 8x8 window handed to guess_best_block_element
    best,        \* its outputs: [elem, fg, bg]; elem = NoResult before the call
    args,        \* the arguments of a write_* call and the chosen algorithm
    out,         \* the bytes the call wrote to stdout; empty before the call
    vo           \* struct vo and struct priv over the driver's callbacks

vars == <<rgb, x256, win_pixels, best, args, out, vo>>

NoResult == 0 - 1
DivTrap == 0 - 2

\* C integer division for a positive divisor: truncation toward zero.
CDiv(a, b) == IF a >= 0 THEN a \div b ELSE 0 - ((0 - a) \div b)

Min2(a, b) == IF a <= b THEN a ELSE b

(***************************************************************************)
(* rgb_to_x256                                                             *)
(***************************************************************************)

v2ci(v) == IF v < 48 THEN 0 ELSE IF v < 115 THEN 1 ELSE CDiv(v - 35, 40)

color_index(ir, ig, ib) == 36 * ir + 6 * ig + ib

i2cv == <<0, 95, 135, 175, 215, 255>>   \* 0-based in C; i2cv[c + 1] here

gray_index_of(average) ==
    IF average > 238 THEN 23 ELSE CDiv(average - 3, 10)

dist_square(A, B, C, a, b, c) ==
    (A - a) * (A - a) + (B - b) * (B - b) + (C - c) * (C - c)

\* The final choice of rgb_to_x256 with "<" for "<=": gray wins a tie.
choose_index_gray_on_tie(color_err, gray_err, ci, gi) ==
    IF color_err < gray_err THEN 16 + ci ELSE 232 + gi

\* The final choice of rgb_to_x256 with the two results exchanged.
choose_index_swapped(color_err, gray_err, ci, gi) ==
    IF color_err <= gray_err THEN 232 + gi ELSE 16 + ci

choose_index(color_err, gray_err, ci, gi) ==
    IF color_err <= gray_err THEN 16 + ci ELSE 232 + gi

rgb_to_x256(r, g, b) ==
    LET ir == v2ci(r)
        ig == v2ci(g)
        ib == v2ci(b)
        average == CDiv(r + g + b, 3)
        gray_index == gray_index_of(average)
        cr == i2cv[ir + 1]
        cg == i2cv[ig + 1]
        cb == i2cv[ib + 1]
        gv == 8 + 10 * gray_index
        color_err == dist_square(cr, cg, cb, r, g, b)
        gray_err == dist_square(gv, gv, gv, r, g, b)
    IN  choose_index(color_err, gray_err, color_index(ir, ig, ib), gray_index)

(***************************************************************************)
(* Block elements                                                          *)
(***************************************************************************)

NUM_ELEMENTS == 19
WINDOW_H == 8
WINDOW_W == 8
WINDOW_SZ == WINDOW_W * WINDOW_H
INT_MAX == 2147483647

\* enum block_elem_name: element e is block_elements[e + 1].
LOWER_HALF == 0
LEFT_HALF == 1

\* A 64-bit bitmap is written as its 64 binary digits, most significant first,
\* exactly as in the C literal.
block_elements == <<
    \* LOWER_HALF
    [bitmap |-> <<0, 0, 0, 0, 0, 0, 0, 0,
                 0, 0, 0, 0, 0, 0, 0, 0,
                 0, 0, 0, 0, 0, 0, 0, 0,
                 0, 0, 0, 0, 0, 0, 0, 0,
                 1, 1, 1, 1, 1, 1, 1, 1,
                 1, 1, 1, 1, 1, 1, 1, 1,
                 1, 1, 1, 1, 1, 1, 1, 1,
                 1, 1, 1, 1, 1, 1, 1, 1>>,
     utf8 |-> <<226, 150, 132>>],
    \* LEFT_HALF
    [bitmap |-> <<1, 1, 1, 1, 0, 0, 0, 0,
                 1, 1, 1, 1, 0, 0, 0, 0,
                 1, 1, 1, 1, 0, 0, 0, 0,
                 1, 1, 1, 1, 0, 0, 0, 0,
                 1, 1, 1, 1, 0, 0, 0, 0,
                 1, 1, 1, 1, 0, 0, 0, 0,
                 1, 1, 1, 1, 0, 0, 0, 0,
                 1, 1, 1, 1, 0, 0, 0, 0>>,
     utf8 |-> <<226, 150, 140>>],
    \* QUADRANT_LOWER_LEFT
    [bitmap |-> <<0, 0, 0, 0, 0, 0, 0, 0,
                 0, 0, 0, 0, 0, 0, 0, 0,
                 0, 0, 0, 0, 0, 0, 0, 0,
                 0, 0, 0, 0, 0, 0, 0, 0,
                 1, 1, 1, 1, 0, 0, 0, 0,
                 1, 1, 1, 1, 0, 0, 0, 0,
                 1, 1, 1, 1, 0, 0, 0, 0,
                 1, 1, 1, 1, 0, 0, 0, 0>>,
     utf8 |-> <<226, 150, 150>>],
    \* QUADRANT_LOWER_RIGHT
    [bitmap |-> <<0, 0, 0, 0, 0, 0, 0, 0,
                 0, 0, 0, 0, 0, 0, 0, 0,
                 0, 0, 0, 0, 0, 0, 0, 0,
                 0, 0, 0, 0, 0, 0, 0, 0,
                 0, 0, 0, 0, 1, 1, 1, 1,
                 0, 0, 0, 0, 1, 1, 1, 1,
                 0, 0, 0, 0, 1, 1, 1, 1,
                 0, 0, 0, 0, 1, 1, 1, 1>>,
     utf8 |-> <<226, 150, 151>>],
    \* QUADRANT_UPPER_LEFT
    [bitmap |-> <<1, 1, 1, 1, 0, 0, 0, 0,
                 1, 1, 1, 1, 0, 0, 0, 0,
                 1, 1, 1, 1, 0, 0, 0, 0,
                 1, 1, 1, 1, 0, 0, 0, 0,
                 0, 0, 0, 0, 0, 0, 0, 0,
                 0, 0, 0, 0, 0, 0, 0, 0,
                 0, 0, 0, 0, 0, 0, 0, 0,
                 0, 0, 0, 0, 0, 0, 0, 0>>,
     utf8 |-> <<226, 150, 152>>],
    \* QUADRANT_UPPER_RIGHT
    [bitmap |-> <<0, 0, 0, 0, 1, 1, 1, 1,
                 0, 0, 0, 0, 1, 1, 1, 1,
                 0, 0, 0, 0, 1, 1, 1, 1,
                 0, 0, 0, 0, 1, 1, 1, 1,
                 0, 0, 0, 0, 0, 0, 0, 0,
                 0, 0, 0, 0, 0, 0, 0, 0,
                 0, 0, 0, 0, 0, 0, 0, 0,
                 0, 0, 0, 0, 0, 0, 0, 0>>,
     utf8 |-> <<226, 150, 157>>],
    \* QUADRANT_UPPER_RIGHT_LOWER_LEFT
    [bitmap |-> <<0, 0, 0, 0, 1, 1, 1, 1,
                 0, 0, 0, 0, 1, 1, 1, 1,
                 0, 0, 0, 0, 1, 1, 1, 1,
                 0, 0, 0, 0, 1, 1, 1, 1,
                 1, 1, 1, 1, 0, 0, 0, 0,
                 1, 1, 1, 1, 0, 0, 0, 0,
                 1, 1, 1, 1, 0, 0, 0, 0,
                 1, 1, 1, 1, 0, 0, 0, 0>>,
     utf8 |-> <<226, 150, 158>>],
    \* LOWER_ONE_QUARTER
    [bitmap |-> <<0, 0, 0, 0, 0, 0, 0, 0,
                 0, 0, 0, 0, 0, 0, 0, 0,
                 0, 0, 0, 0, 0, 0, 0, 0,
                 0, 0, 0, 0, 0, 0, 0, 0,
                 0, 0, 0, 0, 0, 0, 0, 0,
                 0, 0, 0, 0, 0, 0, 0, 0,
                 1, 1, 1, 1, 1, 1, 1, 1,
                 1, 1, 1, 1, 1, 1, 1, 1>>,
     utf8 |-> <<226, 150, 130>>],
    \* LOWER_THREE_QUARTERS
    [bitmap |-> <<0, 0, 0, 0, 0, 0, 0, 0,
                 0, 0, 0, 0, 0, 0, 0, 0,
                 1, 1, 1, 1, 1, 1, 1, 1,
                 1, 1, 1, 1, 1, 1, 1, 1,
                 1, 1, 1, 1, 1, 1, 1, 1,
                 1, 1, 1, 1, 1, 1, 1, 1,
                 1, 1, 1, 1, 1, 1, 1, 1,
                 1, 1, 1, 1, 1, 1, 1, 1>>,
     utf8 |-> <<226, 150, 134>>],
    \* LEFT_ONE_QUARTER
    [bitmap |-> <<1, 1, 0, 0, 0, 0, 0, 0,
                 1, 1, 0, 0, 0, 0, 0, 0,
                 1, 1, 0, 0, 0, 0, 0, 0,
                 1, 1, 0, 0, 0, 0, 0, 0,
                 1, 1, 0, 0, 0, 0, 0, 0,
                 1, 1, 0, 0, 0, 0, 0, 0,
                 1, 1, 0, 0, 0, 0, 0, 0,
                 1, 1, 0, 0, 0, 0, 0, 0>>,
     utf8 |-> <<226, 150, 142>>],
    \* LEFT_THREE_QUARTERS
    [bitmap |-> <<1, 1, 1, 1, 1, 1, 0, 0,
                 1, 1, 1, 1, 1, 1, 0, 0,
                 1, 1, 1, 1, 1, 1, 0, 0,
                 1, 1, 1, 1, 1, 1, 0, 0,
                 1, 1, 1, 1, 1, 1, 0, 0,
                 1, 1, 1, 1, 1, 1, 0, 0,
                 1, 1, 1, 1, 1, 1, 0, 0,
                 1, 1, 1, 1, 1, 1, 0, 0>>,
     utf8 |-> <<226, 150, 138>>],
    \* LOWER_ONE_EIGHTH
    [bitmap |-> <<0, 0, 0, 0, 0, 0, 0, 0,
                 0, 0, 0, 0, 0, 0, 0, 0,
                 0, 0, 0, 0, 0, 0, 0, 0,
                 0, 0, 0, 0, 0, 0, 0, 0,
                 0, 0, 0, 0, 0, 0, 0, 0,
                 0, 0, 0, 0, 0, 0, 0, 0,
                 0, 0, 0, 0, 0, 0, 0, 0,
                 1, 1, 1, 1, 1, 1, 1, 1>>,
     utf8 |-> <<226, 150, 129>>],
    \* LOWER_THREE_EIGHTHS
    [bitmap |-> <<0, 0, 0, 0, 0, 0, 0, 0,
                 0, 0, 0, 0, 0, 0, 0, 0,
                 0, 0, 0, 0, 0, 0, 0, 0,
                 0, 0, 0, 0, 0, 0, 0, 0,
                 0, 0, 0, 0, 0, 0, 0, 0,
                 1, 1, 1, 1, 1, 1, 1, 1,
                 1, 1, 1, 1, 1, 1, 1, 1,
                 1, 1, 1, 1, 1, 1, 1, 1>>,
     utf8 |-> <<226, 150, 131>>],
    \* LOWER_FIVE_EIGHTHS
    [bitmap |-> <<0, 0, 0, 0, 0, 0, 0, 0,
                 0, 0, 0, 0, 0, 0, 0, 0,
                 0, 0, 0, 0, 0, 0, 0, 0,
                 1, 1, 1, 1, 1, 1, 1, 1,
                 1, 1, 1, 1, 1, 1, 1, 1,
                 1, 1, 1, 1, 1, 1, 1, 1,
                 1, 1, 1, 1, 1, 1, 1, 1,
                 1, 1, 1, 1, 1, 1, 1, 1>>,
     utf8 |-> <<226, 150, 133>>],
    \* LOWER_SEVEN_EIGHTHS
    [bitmap |-> <<0, 0, 0, 0, 0, 0, 0, 0,
                 1, 1, 1, 1, 1, 1, 1, 1,
                 1, 1, 1, 1, 1, 1, 1, 1,
                 1, 1, 1, 1, 1, 1, 1, 1,
                 1, 1, 1, 1, 1, 1, 1, 1,
                 1, 1, 1, 1, 1, 1, 1, 1,
                 1, 1, 1, 1, 1, 1, 1, 1,
                 1, 1, 1, 1, 1, 1, 1, 1>>,
     utf8 |-> <<226, 150, 135>>],
    \* LEFT_ONE_EIGHTH
    [bitmap |-> <<1, 0, 0, 0, 0, 0, 0, 0,
                 1, 0, 0, 0, 0, 0, 0, 0,
                 1, 0, 0, 0, 0, 0, 0, 0,
                 1, 0, 0, 0, 0, 0, 0, 0,
                 1, 0, 0, 0, 0, 0, 0, 0,
                 1, 0, 0, 0, 0, 0, 0, 0,
                 1, 0, 0, 0, 0, 0, 0, 0,
                 1, 0, 0, 0, 0, 0, 0, 0>>,
     utf8 |-> <<226, 150, 143>>],
    \* LEFT_THREE_EIGHTHS
    [bitmap |-> <<1, 1, 1, 0, 0, 0, 0, 0,
                 1, 1, 1, 0, 0, 0, 0, 0,
                 1, 1, 1, 0, 0, 0, 0, 0,
                 1, 1, 1, 0, 0, 0, 0, 0,
                 1, 1, 1, 0, 0, 0, 0, 0,
                 1, 1, 1, 0, 0, 0, 0, 0,
                 1, 1, 1, 0, 0, 0, 0, 0,
                 1, 1, 1, 0, 0, 0, 0, 0>>,
     utf8 |-> <<226, 150, 141>>],
    \* LEFT_FIVE_EIGHTHS
    [bitmap |-> <<1, 1, 1, 1, 1, 0, 0, 0,
                 1, 1, 1, 1, 1, 0, 0, 0,
                 1, 1, 1, 1, 1, 0, 0, 0,
                 1, 1, 1, 1, 1, 0, 0, 0,
                 1, 1, 1, 1, 1, 0, 0, 0,
                 1, 1, 1, 1, 1, 0, 0, 0,
                 1, 1, 1, 1, 1, 0, 0, 0,
                 1, 1, 1, 1, 1, 0, 0, 0>>,
     utf8 |-> <<226, 150, 139>>],
    \* LEFT_SEVEN_EIGHTHS
    [bitmap |-> <<1, 1, 1, 1, 1, 1, 1, 0,
                 1, 1, 1, 1, 1, 1, 1, 0,
                 1, 1, 1, 1, 1, 1, 1, 0,
                 1, 1, 1, 1, 1, 1, 1, 0,
                 1, 1, 1, 1, 1, 1, 1, 0,
                 1, 1, 1, 1, 1, 1, 1, 0,
                 1, 1, 1, 1, 1, 1, 1, 0,
                 1, 1, 1, 1, 1, 1, 1, 0>>,
     utf8 |-> <<226, 150, 137>>]
  >>

\* is_fg shifting by i: bit i counted from the least significant end.
is_fg_lsb_first(bits, i) == bits[WINDOW_SZ - i]

\* bits >> (WINDOW_SZ-1-i) & 1: the digit i places after the most significant.
is_fg(bits, i) == bits[WINDOW_SZ - (WINDOW_SZ - 1 - i)]

square(v) == v * v

ZeroSums ==
    [num_fg |-> 0, sum_fg_r |-> 0, sum_fg_g |-> 0, sum_fg_b |-> 0,
     sum_fg2_r |-> 0, sum_fg2_g |-> 0, sum_fg2_b |-> 0,
     num_bg |-> 0, sum_bg_r |-> 0, sum_bg_g |-> 0, sum_bg_b |-> 0,
     sum_bg2_r |-> 0, sum_bg2_g |-> 0, sum_bg2_b |-> 0]

\* The loop body of best_fg_bg with the foreground counter incremented in
\* both branches.
add_pixel_count_fg_twice(s, fg, px) ==
    IF fg = 1
    THEN [s EXCEPT !.num_fg = @ + 1,
                   !.sum_fg_r = @ + px.r, !.sum_fg_g = @ + px.g,
                   !.sum_fg_b = @ + px.b,
                   !.sum_fg2_r = @ + square(px.r),
                   !.sum_fg2_g = @ + square(px.g),
                   !.sum_fg2_b = @ + square(px.b)]
    ELSE [s EXCEPT !.num_fg = @ + 1,
                   !.sum_bg_r = @ + px.r, !.sum_bg_g = @ + px.g,
                   !.sum_bg_b = @ + px.b,
                   !.sum_bg2_r = @ + square(px.r),
                   !.sum_bg2_g = @ + square(px.g),
                   !.sum_bg2_b = @ + square(px.b)]

\* One iteration of the loop of best_fg_bg.
add_pixel(s, fg, px) ==
    IF fg = 1
    THEN [s EXCEPT !.num_fg = @ + 1,
                   !.sum_fg_r = @ + px.r, !.sum_fg_g = @ + px.g,
                   !.sum_fg_b = @ + px.b,
                   !.sum_fg2_r = @ + square(px.r),
                   !.sum_fg2_g = @ + square(px.g),
                   !.sum_fg2_b = @ + square(px.b)]
    ELSE [s EXCEPT !.num_bg = @ + 1,
                   !.sum_bg_r = @ + px.r, !.sum_bg_g = @ + px.g,
                   !.sum_bg_b = @ + px.b,
                   !.sum_bg2_r = @ + square(px.r),
                   !.sum_bg2_g = @ + square(px.g),
                   !.sum_bg2_b = @ + square(px.b)]

\* The iterations i, i + 1, ..., stop - 1 of the loop of best_fg_bg;
\* sum_step carries the sums after iteration i into iteration i + 1.
RECURSIVE sum_loop(_, _, _, _, _)
RECURSIVE sum_step(_, _, _, _, _)
sum_loop(elem, win, i, stop, s) ==
    IF i < stop
    THEN sum_step(elem, win, i + 1, stop,
                  add_pixel(s, is_fg(block_elements[elem + 1].bitmap, i),
                            win[i + 1]))
    ELSE s

\* The test is always true: it makes t a value before the next iteration
\* starts.
sum_step(elem, win, i, stop, t) ==
    IF t.num_fg + t.num_bg > 0 THEN sum_loop(elem, win, i, stop, t) ELSE t

\* The loop "for (i = 0; i < WINDOW_SZ; ++i)" run as WINDOW_H stretches of
\* WINDOW_W iterations each, in the same order, which keeps the evaluation
\* shallow.
RECURSIVE sum_stretches(_, _, _, _)
RECURSIVE sum_stretch_step(_, _, _, _)
sum_stretches(elem, win, i, s) ==
    IF i < WINDOW_SZ
    THEN sum_stretch_step(elem, win, i + WINDOW_W,
                          sum_loop(elem, win, i, i + WINDOW_W, s))
    ELSE s

sum_stretch_step(elem, win, i, t) ==
    IF t.num_fg + t.num_bg > 0 THEN sum_stretches(elem, win, i, t) ELSE t

\* The sums best_fg_bg holds when its loop ends.
fg_bg_sums(elem, win) == sum_stretches(elem, win, 0, ZeroSums)

\* sum/num, stored in an unsigned char (the quotient is at most 255).  A
\* division by zero stops the program (SIGFPE); DivTrap marks that outcome.
mean_of(sum, num) == IF num = 0 THEN DivTrap ELSE sum \div num

\* One "loss +=" term: sum of squares - num * square(mean).
loss_term(sum2, num, mean) == sum2 - num * square(mean)

\* "mean_fg->r = sum_fg_r / num_fg" and the five assignments after it.
fg_mean(s) ==
    [r |-> mean_of(s.sum_fg_r, s.num_fg),
     g |-> mean_of(s.sum_fg_g, s.num_fg),
     b |-> mean_of(s.sum_fg_b, s.num_fg)]

bg_mean(s) ==
    [r |-> mean_of(s.sum_bg_r, s.num_bg),
     g |-> mean_of(s.sum_bg_g, s.num_bg),
     b |-> mean_of(s.sum_bg_b, s.num_bg)]

\* The six "loss +=" terms in the order the code adds them.
loss_terms(s, mean_fg, mean_bg) ==
    <<loss_term(s.sum_fg2_r, s.num_fg, mean_fg.r),
      loss_term(s.sum_fg2_g, s.num_fg, mean_fg.g),
      loss_term(s.sum_fg2_b, s.num_fg, mean_fg.b),
      loss_term(s.sum_bg2_r, s.num_bg, mean_bg.r),
      loss_term(s.sum_bg2_g, s.num_bg, mean_bg.g),
      loss_term(s.sum_bg2_b, s.num_bg, mean_bg.b)>>

\* What best_fg_bg hands back: the outputs *mean_fg, *mean_bg and the
\* returned loss, with the sums and the six loss terms it held.
fit_result(s, mean_fg, mean_bg, t) ==
    [mean_fg |-> mean_fg, mean_bg |-> mean_bg,
     loss |-> t[1] + t[2] + t[3] + t[4] + t[5] + t[6],
     sums |-> s, terms |-> t]

fit_of_means(s, mean_fg, mean_bg) ==
    fit_result(s, mean_fg, mean_bg, loss_terms(s, mean_fg, mean_bg))

fit_of_sums(s) == fit_of_means(s, fg_mean(s), bg_mean(s))

best_fg_bg(elem, win) == fit_of_sums(fg_bg_sums(elem, win))

\* The results of the calls best_fg_bg(elem, win) for elem, elem + 1, ... in
\* the order guess_best_block_element makes them.
RECURSIVE best_fg_bg_calls(_, _)
best_fg_bg_calls(win, elem) ==
    IF elem < NUM_ELEMENTS
    THEN <<best_fg_bg(elem, win)>> \o best_fg_bg_calls(win, elem + 1)
    ELSE <<>>

\* The test of guess_best_block_element with "<=" for "<".
improves_or_equal(loss, best_loss) == loss <= best_loss

\* "loss < best_loss": an unsigned comparison of two values below 2^31.
improves(loss, best_loss) == loss < best_loss

\* The loop of guess_best_block_element; calls[elem + 1] is what its call
\* best_fg_bg(elem, win_pixels, &fg, &bg) produces.
RECURSIVE guess_loop(_, _, _)
guess_loop(calls, elem, b) ==
    IF elem < NUM_ELEMENTS
    THEN guess_loop(calls, elem + 1,
                    IF improves(calls[elem + 1].loss, b.best_loss)
                    THEN [best_elem |-> elem,
                          best_loss |-> calls[elem + 1].loss,
                          best_fg |-> calls[elem + 1].mean_fg,
                          best_bg |-> calls[elem + 1].mean_bg]
                    ELSE b)
    ELSE b

\* What guess_best_block_element hands back: the returned utf8, the outputs
\* *best_fg and *best_bg, and the record of its best_fg_bg calls.
guess_result(b, calls) ==
    [elem |-> b.best_elem,
     utf8 |-> block_elements[b.best_elem + 1].utf8,
     fg |-> b.best_fg, bg |-> b.best_bg, calls |-> calls]

\* best_elem, best_fg and best_bg are unset until the first element improves
\* on INT_MAX; NoResult stands for "unset".
guess_of_calls(calls) ==
    guess_result(guess_loop(calls, 0,
                            [best_elem |-> NoResult, best_loss |-> INT_MAX,
                             best_fg |-> NoResult, best_bg |-> NoResult]),
                 calls)

guess_best_block_element(win) == guess_of_calls(best_fg_bg_calls(win, 0))

(***************************************************************************)
(* Escape sequences and the number table                                   *)
(***************************************************************************)

ALGO_PLAIN == 1
ALGO_HALF_BLOCKS == 2
ALGO_ALL_BLOCKS == 3

ESC_CLEAR_COLORS == <<27, 91, 48, 109>>          \* "\033[0m"
ESC_COLOR_BG == <<27, 91, 52, 56, 59, 50>>       \* "\033[48;2"
ESC_COLOR_FG == <<27, 91, 51, 56, 59, 50>>       \* "\033[38;2"
ESC_COLOR256_BG == <<27, 91, 52, 56, 59, 53>>    \* "\033[48;5"
ESC_COLOR256_FG == <<27, 91, 51, 56, 59, 53>>    \* "\033[38;5"

\* printf's %d of a non-negative int: its decimal digits, no leading zero.
RECURSIVE fmt_nat(_)
fmt_nat(n) ==
    IF n < 10 THEN <<48 + n>> ELSE fmt_nat(n \div 10) \o <<48 + (n % 10)>>

\* printf's %d: a minus sign before the digits of a negative int.
fmt_d(n) == IF n < 0 THEN <<45>> \o fmt_nat(0 - n) ELSE fmt_nat(n)

\* printf(ESC_GOTOXY, a, b) with ESC_GOTOXY = "\033[%d;%df".
printf_gotoxy(a, b) == <<27, 91>> \o fmt_d(a) \o <<59>> \o fmt_d(b) \o <<102>>

\* The first n elements of s, or all of s when it is shorter.
Take(s, n) == SubSeq(s, 1, Min2(n, Len(s)))

\* preinit: width = sprintf(buff, ";%d", i); memcpy(str, buff, 4).  The bytes
\* of buff after the formatted text are not modelled: no write reads them.
lut_item(i) ==
    LET buff == <<59>> \o fmt_d(i)
    IN  [str |-> Take(buff, 4), width |-> Len(buff)]

lut == [i \in 0..255 |-> lut_item(i)]

\* fwrite(item.str, item.width, 1, stdout)
fwrite_item(item) == Take(item.str, item.width)

print_seq3(prefix, r, g, b) ==
    prefix \o fwrite_item(lut[r]) \o fwrite_item(lut[g])
           \o fwrite_item(lut[b]) \o <<109>>

print_seq1(prefix, c) == prefix \o fwrite_item(lut[c]) \o <<109>>

(***************************************************************************)
(* The three renderers.  source = [stride, data]: data[k + 1] is the byte  *)
(* at source + k.                                                          *)
(***************************************************************************)

\* get_rgb reading the bytes in the order r, g, b.
get_rgb_rgb_order(source, base_pixel) ==
    [r |-> source.data[base_pixel + 1],
     g |-> source.data[base_pixel + 2],
     b |-> source.data[base_pixel + 3]]

\* get_rgb, and the three "*row++" reads: bytes in the order b, g, r.
get_rgb(source, base_pixel) ==
    [b |-> source.data[base_pixel + 1],
     g |-> source.data[base_pixel + 2],
     r |-> source.data[base_pixel + 3]]

\* (dwidth - swidth) / 2 and (dheight - sheight) / 2
center_offset(d, s) == CDiv(d - s, 2)

\* The cells of one row of write_plain from column x on; row is the pointer.
RECURSIVE plain_cells(_, _, _, _, _)
plain_cells(x, swidth, source, row, term256) ==
    IF x < swidth
    THEN LET c == get_rgb(source, row)
         IN  (IF term256
              THEN print_seq1(ESC_COLOR256_BG, rgb_to_x256(c.r, c.g, c.b))
              ELSE print_seq3(ESC_COLOR_BG, c.r, c.g, c.b))
             \o <<32>>
             \o plain_cells(x + 1, swidth, source, row + 3, term256)
    ELSE <<>>

RECURSIVE plain_rows(_, _, _, _, _, _, _)
plain_rows(y, tx, ty, swidth, sheight, source, term256) ==
    IF y < sheight
    THEN printf_gotoxy(ty + y, tx)
         \o plain_cells(0, swidth, source, y * source.stride, term256)
         \o ESC_CLEAR_COLORS
         \o plain_rows(y + 1, tx, ty, swidth, sheight, source, term256)
    ELSE <<>>

\* write_plain with the reset and the newline both written once per row.
write_plain_row_newline(dwidth, dheight, swidth, sheight, source, term256) ==
    LET tx == center_offset(dwidth, swidth)
        ty == center_offset(dheight, sheight)
        RECURSIVE rows(_)
        rows(y) ==
            IF y < sheight
            THEN printf_gotoxy(ty + y, tx)
                 \o plain_cells(0, swidth, source, y * source.stride, term256)
                 \o ESC_CLEAR_COLORS \o <<10>> \o rows(y + 1)
            ELSE <<>>
    IN  rows(0)

write_plain(dwidth, dheight, swidth, sheight, source, term256) ==
    plain_rows(0, center_offset(dwidth, swidth), center_offset(dheight, sheight),
               swidth, sheight, source, term256)
    \o <<10>>

\* The cells of one row of write_half_blocks from column x on.
RECURSIVE half_cells(_, _, _, _, _, _)
half_cells(x, swidth, source, row_up, row_down, term256) ==
    IF x < swidth
    THEN LET up == get_rgb(source, row_up)
             down == get_rgb(source, row_down)
         IN  (IF term256
              THEN print_seq1(ESC_COLOR256_BG, rgb_to_x256(up.r, up.g, up.b))
                   \o print_seq1(ESC_COLOR256_FG,
                                 rgb_to_x256(down.r, down.g, down.b))
              ELSE print_seq3(ESC_COLOR_BG, up.r, up.g, up.b)
                   \o print_seq3(ESC_COLOR_FG, down.r, down.g, down.b))
             \o <<226, 150, 132>>
             \o half_cells(x + 1, swidth, source, row_up + 3, row_down + 3,
                           term256)
    ELSE <<>>

RECURSIVE half_rows(_, _, _, _, _, _, _)
half_rows(y, tx, ty, swidth, sheight, source, term256) ==
    IF y < sheight * 2
    THEN printf_gotoxy(ty + CDiv(y, 2), tx)
         \o half_cells(0, swidth, source, y * source.stride,
                       (y + 1) * source.stride, term256)
         \o ESC_CLEAR_COLORS
         \o half_rows(y + 2, tx, ty, swidth, sheight, source, term256)
    ELSE <<>>

write_half_blocks(dwidth, dheight, swidth, sheight, source, term256) ==
    half_rows(0, center_offset(dwidth, swidth), center_offset(dheight, sheight),
              swidth, sheight, source, term256)
    \o <<10>>

\* "fill window" for cell x of the rows starting at line y: rows[i] has been
\* advanced by 3 bytes for each of the WINDOW_W pixels of every earlier cell.
fill_window(x, y, source) ==
    [j \in 1..WINDOW_SZ |->
        LET i == (j - 1) \div WINDOW_W
        IN  get_rgb(source, (y + i) * source.stride
                            + 3 * (WINDOW_W * x + ((j - 1) % WINDOW_W)))]

\* What write_all_blocks prints for one cell whose fit is e.
all_cell(e, term256) ==
    (IF term256
     THEN print_seq1(ESC_COLOR256_BG, rgb_to_x256(e.bg.r, e.bg.g, e.bg.b))
          \o print_seq1(ESC_COLOR256_FG, rgb_to_x256(e.fg.r, e.fg.g, e.fg.b))
     ELSE print_seq3(ESC_COLOR_BG, e.bg.r, e.bg.g, e.bg.b)
          \o print_seq3(ESC_COLOR_FG, e.fg.r, e.fg.g, e.fg.b))
    \o e.utf8

RECURSIVE all_cells(_, _, _, _, _)
all_cells(x, y, swidth, source, term256) ==
    IF x < swidth
    THEN all_cell(guess_best_block_element(fill_window(x, y, source)),
                  term256)
         \o all_cells(x + 1, y, swidth, source, term256)
    ELSE <<>>

RECURSIVE all_rows(_, _, _, _, _, _, _)
all_rows(y, tx, ty, swidth, sheight, source, term256) ==
    IF y < sheight * WINDOW_H
    THEN printf_gotoxy(ty + CDiv(y, WINDOW_H), tx)
         \o all_cells(0, y, swidth, source, term256)
         \o ESC_CLEAR_COLORS
         \o all_rows(y + WINDOW_H, tx, ty, swidth, sheight, source, term256)
    ELSE <<>>

write_all_blocks(dwidth, dheight, swidth, sheight, source, term256) ==
    all_rows(0, center_offset(dwidth, swidth), center_offset(dheight, sheight),
             swidth, sheight, source, term256)
    \o <<10>>

\* The switch of flip_page on p->opts->algo.
render(a) ==
    CASE a.algo = ALGO_PLAIN ->
            write_plain(a.dwidth, a.dheight, a.swidth, a.sheight,
                        a.source, a.term256)
      [] a.algo = ALGO_ALL_BLOCKS ->
            write_all_blocks(a.dwidth, a.dheight, a.swidth, a.sheight,
                             a.source, a.term256)
      [] OTHER ->
            write_half_blocks(a.dwidth, a.dheight, a.swidth, a.sheight,
                              a.source, a.term256)

\* p->swidth * mul_w by p->sheight * mul_h: the size reconfig allocates.
mul_w(algo) == IF algo = ALGO_ALL_BLOCKS THEN WINDOW_W ELSE 1
mul_h(algo) ==
    IF algo = ALGO_PLAIN THEN 1
    ELSE IF algo = ALGO_ALL_BLOCKS THEN WINDOW_H ELSE 2

(***************************************************************************)
(* Reading a byte stream back as the terminal does: a control sequence     *)
(* ESC [ n ; n ... <final byte>, a 3-byte UTF-8 character, or one byte.    *)
(***************************************************************************)

RECURSIVE csi_scan(_, _, _, _, _)
csi_scan(bytes, p, acc, cur, neg) ==
    IF p > Len(bytes)
    THEN [params |-> acc, final |-> NoResult, next |-> p]
    ELSE LET c == bytes[p]
             val == IF neg THEN 0 - cur ELSE cur
         IN  IF c >= 48 /\ c <= 57
             THEN csi_scan(bytes, p + 1, acc, cur * 10 + (c - 48), neg)
             ELSE IF c = 45
             THEN csi_scan(bytes, p + 1, acc, cur, TRUE)
             ELSE IF c = 59
             THEN csi_scan(bytes, p + 1, Append(acc, val), 0, FALSE)
             ELSE [params |-> Append(acc, val), final |-> c, next |-> p + 1]

RECURSIVE tokens_from(_, _)
tokens_from(bytes, p) ==
    IF p > Len(bytes) THEN <<>>
    ELSE IF bytes[p] = 27 /\ p < Len(bytes) /\ bytes[p + 1] = 91
    THEN LET c == csi_scan(bytes, p + 2, <<>>, 0, FALSE)
         IN  <<[kind |-> "csi", final |-> c.final, params |-> c.params]>>
             \o tokens_from(bytes, c.next)
    ELSE IF bytes[p] >= 224 /\ p + 2 <= Len(bytes)
    THEN <<[kind |-> "glyph", final |-> 0,
            params |-> SubSeq(bytes, p, p + 2)]>>
         \o tokens_from(bytes, p + 3)
    ELSE <<[kind |-> "char", final |-> bytes[p], params |-> <<>>]>>
         \o tokens_from(bytes, p + 1)

Tokens(bytes) == tokens_from(bytes, 1)

TokGoto(row, col) == [kind |-> "csi", final |-> 102, params |-> <<row, col>>]
TokBg(r, g, b) == [kind |-> "csi", final |-> 109, params |-> <<48, 2, r, g, b>>]
TokFg(r, g, b) == [kind |-> "csi", final |-> 109, params |-> <<38, 2, r, g, b>>]
TokBg256(n) == [kind |-> "csi", final |-> 109, params |-> <<48, 5, n>>]
TokFg256(n) == [kind |-> "csi", final |-> 109, params |-> <<38, 5, n>>]
TokReset == [kind |-> "csi", final |-> 109, params |-> <<0>>]
TokGlyph(utf8) == [kind |-> "glyph", final |-> 0, params |-> utf8]
TokSpace == [kind |-> "char", final |-> 32, params |-> <<>>]
TokNewline == [kind |-> "char", final |-> 10, params |-> <<>>]

IsGoto(t) == t.kind = "csi" /\ t.final = 102
IsBg(t) == t.kind = "csi" /\ t.final = 109 /\ Len(t.params) > 1
                /\ t.params[1] = 48
IsFg(t) == t.kind = "csi" /\ t.final = 109 /\ Len(t.params) > 1
                /\ t.params[1] = 38
IsCell(t) == t.kind = "glyph" \/ t = TokSpace

\* How many elements of the sequence s satisfy the test P.
Count(s, P(_)) == Cardinality({k \in 1..Len(s) : P(s[k])})

(***************************************************************************)
(* Inputs                                                                  *)
(***************************************************************************)

MaxSamples == 8      \* evenly spaced channel values tried by rgb_to_x256
MaxFitColors == 3    \* colours a window is painted with
MaxCols == 3         \* swidth of a plain or half-blocks frame
MaxRows == 2         \* sheight of a plain or half-blocks frame
MaxBlockCols == 2    \* swidth of an all-blocks frame
MaxBlockRows == 2    \* sheight of an all-blocks frame
MaxTermW == 4        \* dwidth of a narrow terminal
MaxTermH == 2        \* dheight of a low terminal
NumFrames == 2       \* frame contents
StridePad == 1       \* bytes of a frame line after its last pixel
MaxLifeW == 2        \* widest terminal over a run of callbacks
MaxLifeH == 1        \* highest terminal over a run of callbacks
DEFAULT_WIDTH == 80
DEFAULT_HEIGHT == 25

\* The channel values at which a decision of rgb_to_x256 changes, and the
\* evenly spaced ones.
ChanSamples ==
    {0, 4, 8, 12, 47, 48, 114, 115, 118, 154, 155, 238, 239, 245, 255}
    \cup {(k * 255) \div MaxSamples : k \in 0..MaxSamples}

IdleRgb == [r |-> 0, g |-> 0, b |-> 0]
IdleBest == [elem |-> NoResult]
IdleArgs == [algo |-> 0]
IdleVo == [algo |-> 0]

FitColorList ==
    <<[r |-> 0, g |-> 0, b |-> 0],
      [r |-> 1, g |-> 0, b |-> 0],
      [r |-> 30, g |-> 20, b |-> 10],
      [r |-> 255, g |-> 255, b |-> 255],
      [r |-> 60, g |-> 50, b |-> 40],
      [r |-> 255, g |-> 0, b |-> 118],
      [r |-> 7, g |-> 130, b |-> 200]>>

FitColors ==
    {FitColorList[k] : k \in 1..Min2(MaxFitColors, Len(FitColorList))}

\* The partitions a window is painted by: every element's own bitmap, a
\* checkerboard, and a single corner pixel.
FitMasks ==
    {block_elements[e].bitmap : e \in 1..NUM_ELEMENTS}
    \cup {[j \in 1..WINDOW_SZ |-> (((j - 1) \div WINDOW_W) + (j - 1)) % 2],
          [j \in 1..WINDOW_SZ |-> IF j = 1 THEN 1 ELSE 0]}

\* Pixels that may carry a third colour; NoResult: none does.
FitSpots == {NoResult, 0, 36}

\* The window with colour A where mask is set and B elsewhere, and colour C
\* at pixel spot.
PaintWindow(mask, A, B, spot, C) ==
    [j \in 1..WINDOW_SZ |->
        IF j - 1 = spot THEN C ELSE IF mask[j] = 1 THEN A ELSE B]

FitWindows ==
    {PaintWindow(m, A, B, NoResult, A) : m \in FitMasks, A \in FitColors,
                                         B \in FitColors}
    \cup {PaintWindow(m, A, B, sp, C) : m \in FitMasks, A \in FitColors,
                                        B \in FitColors,
                                        sp \in FitSpots \ {NoResult},
                                        C \in FitColors}

\* Pixel colours of a frame, as the bytes b, g, r.
Palette ==
    <<<<10, 20, 30>>, <<255, 0, 118>>, <<0, 0, 0>>, <<40, 50, 60>>,
      <<255, 255, 255>>, <<4, 4, 4>>, <<99, 100, 9>>>>

\* Frame number seed: pixel (x, y) has colour seed + x + 3y of the palette.
FrameByte(seed, x, y, ch) ==
    Palette[((seed + x + 3 * y) % Len(Palette)) + 1][ch + 1]

\* A w by h frame as mp_image_alloc lays it out: lines of stride bytes, 3
\* bytes per pixel, StridePad unused bytes closing each line.
Frame(seed, w, h) ==
    LET stride == 3 * w + StridePad
    IN  [stride |-> stride,
         data |-> [k \in 1..(stride * h) |->
                     LET y == (k - 1) \div stride
                         o == (k - 1) % stride
                     IN  IF o < 3 * w
                         THEN FrameByte(seed, o \div 3, y, o % 3)
                         ELSE 170]]

\* What get_win_size reports: the default size with one dimension small.
TermSizes ==
    {<<w, DEFAULT_HEIGHT>> : w \in 1..MaxTermW}
    \cup {<<DEFAULT_WIDTH, h>> : h \in 1..MaxTermH}

MaxSwidth(algo) == IF algo = ALGO_ALL_BLOCKS THEN MaxBlockCols ELSE MaxCols
MaxSheight(algo) == IF algo = ALGO_ALL_BLOCKS THEN MaxBlockRows ELSE MaxRows


(***************************************************************************)
(* The callbacks reconfig, draw_image and flip_page.                       *)
(*                                                                         *)
(* vo holds the fields of struct vo and struct priv the callbacks use:     *)
(*   algo, term256   p->opts (the width and height options are 0),         *)
(*   term            what terminal_get_size reports now,                   *)
(*   dwidth, dheight vo->dwidth, vo->dheight,                              *)
(*   swidth, sheight p->swidth, p->sheight,                                *)
(*   frame           p->frame: absent (NULL), unfilled (as mp_image_alloc  *)
(*                   returned it) or filled (by mp_sws_scale) with the     *)
(*                   picture number seed,                                  *)
(*   config_ok       the caller's record that its last reconfig call       *)
(*                   returned 0; it calls draw_image and flip_page only    *)
(*                   then,                                                 *)
(*   drawn           the caller has called draw_image since its last       *)
(*                   reconfig or flip_page call; it calls flip_page only   *)
(*                   then,                                                 *)
(*   crashed         the process has ended on a NULL p->frame,             *)
(*   shown           the buffer the last flip_page call rendered.          *)
(* out holds the bytes the last callback wrote.                            *)
(***************************************************************************)

ESC_HIDE_CURSOR == <<27, 91, 63, 50, 53, 108>>   \* "\033[?25l"
ESC_CLEAR_SCREEN == <<27, 91, 50, 74>>           \* "\033[2J"

NoFrame == [state |-> "absent", w |-> 0, h |-> 0, seed |-> NoResult]
NotShown == [state |-> "none", w |-> 0, h |-> 0, want_w |-> 0, want_h |-> 0]

\* The terminal sizes of a run.
LifeTermSizes == {<<w, h>> : w \in 1..MaxLifeW, h \in 1..MaxLifeH}

\* reconfig.  alloc_ok: mp_image_alloc returns a buffer; sws_ok:
\* mp_sws_reinit returns 0; sw, sh: the size of the rectangle
\* vo_get_src_dst_rects places in the dwidth by dheight window.  Gives the
\* fields after the call, the return value and the bytes printed.
reconfig_call(v, alloc_ok, sws_ok, sw, sh) ==
    [vo |-> [v EXCEPT !.dwidth = v.term[1], !.dheight = v.term[2],
                      !.swidth = sw, !.sheight = sh,
                      !.frame = IF alloc_ok
                                THEN [state |-> "unfilled",
                                      w |-> sw * mul_w(v.algo),
                                      h |-> sh * mul_h(v.algo),
                                      seed |-> NoResult]
                                ELSE NoFrame],
     ret |-> IF alloc_ok /\ sws_ok THEN 0 ELSE 0 - 1,
     out |-> IF alloc_ok /\ sws_ok
             THEN ESC_HIDE_CURSOR \o ESC_CLEAR_SCREEN ELSE <<>>]

\* The buffer flip_page hands to write_*, beside the size the geometry asks.
shown_of(v) ==
    [state |-> v.frame.state, w |-> v.frame.w, h |-> v.frame.h,
     want_w |-> v.swidth * mul_w(v.algo),
     want_h |-> v.sheight * mul_h(v.algo)]

\* The arguments flip_page can hand to write_* over a run: the geometry
\* <<dwidth, dheight, swidth, sheight>> and the picture in the buffer.
LifeGeometries ==
    UNION {{<<t[1], t[2], sw, sh>> : sw \in 1..t[1], sh \in 1..t[2]} :
              t \in LifeTermSizes}

flip_args(algo, term256, g, seed) ==
    [algo |-> algo, term256 |-> term256,
     dwidth |-> g[1], dheight |-> g[2], swidth |-> g[3], sheight |-> g[4],
     source |-> Frame(seed, g[3] * mul_w(algo), g[4] * mul_h(algo))]

\* The switch of flip_page, worked out once for each of those arguments.
\* (Comparing the table with itself makes it a table of values.)
flip_streams ==
    LET f == [k \in {ALGO_PLAIN, ALGO_HALF_BLOCKS, ALGO_ALL_BLOCKS}
                    \X BOOLEAN \X LifeGeometries \X (0..(NumFrames - 1)) |->
                 render(flip_args(k[1], k[2], k[3], k[4]))]
    IN  IF f = f THEN f ELSE f

\* The switch of flip_page on a buffer holding picture number seed.
flip_write(v, seed) ==
    flip_streams[<<v.algo, v.term256,
                   <<v.dwidth, v.dheight, v.swidth, v.sheight>>, seed>>]

\* flip_page from its switch on: v are the fields and pre the bytes printed
\* so far.  A filled buffer holds its picture; the bytes of an unfilled one
\* are whatever the allocation held, any picture; reading planes[0] of a
\* NULL p->frame ends the process (crash) or reads whatever is there.
flip_finish(v, pre, seed, crash) ==
    IF v.frame.state = "absent" /\ crash
    THEN /\ vo' = [v EXCEPT !.crashed = TRUE, !.shown = shown_of(v),
                            !.drawn = FALSE]
         /\ out' = pre
    ELSE /\ vo' = [v EXCEPT !.shown = shown_of(v), !.drawn = FALSE]
         /\ out' = pre \o flip_write(v, IF v.frame.state = "filled"
                                        THEN v.frame.seed ELSE seed)

(***************************************************************************)
(* Specifications                                                          *)
(***************************************************************************)

\* rgb_to_x256 on every triple of sampled channel values.
InitQuant ==
    /\ rgb \in [r : ChanSamples, g : ChanSamples, b : ChanSamples]
    /\ x256 = NoResult
    /\ win_pixels = <<>>
    /\ best = IdleBest
    /\ args = IdleArgs
    /\ out = <<>>
    /\ vo = IdleVo

Quantize ==
    /\ x256 = NoResult
    /\ x256' = rgb_to_x256(rgb.r, rgb.g, rgb.b)
    /\ UNCHANGED <<rgb, win_pixels, best, args, out, vo>>

NextQuant == Quantize

SpecQuant == InitQuant /\ [][NextQuant]_vars

\* guess_best_block_element on every painted window.
InitFit ==
    /\ win_pixels \in FitWindows
    /\ best = IdleBest
    /\ rgb = IdleRgb
    /\ x256 = NoResult
    /\ args = IdleArgs
    /\ out = <<>>
    /\ vo = IdleVo

Fit ==
    /\ best.elem = NoResult
    /\ best' = guess_best_block_element(win_pixels)
    /\ UNCHANGED <<rgb, x256, win_pixels, args, out, vo>>

NextFit == Fit

SpecFit == InitFit /\ [][NextFit]_vars

\* One frame rendered by the algorithm flip_page selects.
InitRender ==
    /\ \E algo \in {ALGO_PLAIN, ALGO_HALF_BLOCKS, ALGO_ALL_BLOCKS},
          term256 \in BOOLEAN, term \in TermSizes,
          seed \in 0..(NumFrames - 1) :
        \E swidth \in 1..MaxSwidth(algo), sheight \in 1..MaxSheight(algo) :
            args = [algo |-> algo, term256 |-> term256,
                    dwidth |-> term[1], dheight |-> term[2],
                    swidth |-> swidth, sheight |-> sheight,
                    source |-> Frame(seed, swidth * mul_w(algo),
                                     sheight * mul_h(algo))]
    /\ out = <<>>
    /\ rgb = IdleRgb
    /\ x256 = NoResult
    /\ win_pixels = <<>>
    /\ best = IdleBest
    /\ vo = IdleVo

FlipPage ==
    /\ out = <<>>
    /\ out' = render(args)
    /\ UNCHANGED <<rgb, x256, win_pixels, best, args, vo>>

NextRender == FlipPage

SpecRender == InitRender /\ [][NextRender]_vars

\* The callbacks over a run: the video output core calls reconfig, then
\* draw_image and flip_page in turn while its reconfig succeeded; the
\* terminal is resized at any time.
InitLife ==
    /\ \E algo \in {ALGO_PLAIN, ALGO_HALF_BLOCKS, ALGO_ALL_BLOCKS},
          term256 \in BOOLEAN, term \in LifeTermSizes :
        vo = [algo |-> algo, term256 |-> term256, term |-> term,
              dwidth |-> 0, dheight |-> 0, swidth |-> 0, sheight |-> 0,
              frame |-> NoFrame, config_ok |-> FALSE, drawn |-> FALSE,
              crashed |-> FALSE, shown |-> NotShown]
    /\ out = <<>>
    /\ rgb = IdleRgb
    /\ x256 = NoResult
    /\ win_pixels = <<>>
    /\ best = IdleBest
    /\ args = IdleArgs

\* The terminal gets another size.
Resize ==
    /\ ~vo.crashed
    /\ \E t \in LifeTermSizes \ {vo.term} : vo' = [vo EXCEPT !.term = t]
    /\ UNCHANGED <<rgb, x256, win_pixels, best, args, out>>

\* reconfig called by the video output core, which notes its return value.
reconfig ==
    /\ ~vo.crashed
    /\ \E alloc_ok \in BOOLEAN, sws_ok \in BOOLEAN,
          sw \in 1..vo.term[1], sh \in 1..vo.term[2] :
        LET r == reconfig_call(vo, alloc_ok, sws_ok, sw, sh)
        IN  /\ vo' = [r.vo EXCEPT !.config_ok = (r.ret = 0),
                                  !.drawn = FALSE]
            /\ out' = r.out
    /\ UNCHANGED <<rgb, x256, win_pixels, best, args>>

\* draw_image: mp_sws_scale fills p->frame with the picture; with p->frame
\* NULL the call ends the process or returns with nothing filled.
draw_image ==
    /\ vo.config_ok /\ ~vo.crashed
    /\ \/ /\ vo.frame.state # "absent"
          /\ \E seed \in 0..(NumFrames - 1) :
                vo' = [vo EXCEPT !.frame.state = "filled",
                                 !.frame.seed = seed, !.drawn = TRUE]
       \/ /\ vo.frame.state = "absent"
          /\ \E crash \in BOOLEAN :
                vo' = [vo EXCEPT !.crashed = crash, !.drawn = ~crash]
    /\ out' = <<>>
    /\ UNCHANGED <<rgb, x256, win_pixels, best, args>>

\* flip_page: with the size get_win_size reports unchanged it renders
\* p->frame; with another size it calls reconfig, drops the return value,
\* and renders p->frame as reconfig left it.
flip_page ==
    /\ vo.config_ok /\ vo.drawn /\ ~vo.crashed
    /\ \/ /\ <<vo.dwidth, vo.dheight>> = vo.term
          /\ vo.frame.state = "filled"
          /\ flip_finish(vo, <<>>, vo.frame.seed, FALSE)
       \/ /\ <<vo.dwidth, vo.dheight>> = vo.term
          /\ vo.frame.state # "filled"
          /\ \E seed \in 0..(NumFrames - 1), crash \in BOOLEAN :
                flip_finish(vo, <<>>, seed, crash)
       \/ /\ <<vo.dwidth, vo.dheight>> # vo.term
          /\ \E alloc_ok \in BOOLEAN, sws_ok \in BOOLEAN,
                sw \in 1..vo.term[1], sh \in 1..vo.term[2],
                seed \in 0..(NumFrames - 1) :
              \E crash \in (IF alloc_ok THEN {FALSE} ELSE BOOLEAN) :
                LET r == reconfig_call(vo, alloc_ok, sws_ok, sw, sh)
                IN  flip_finish(r.vo, r.out, seed, crash)
    /\ UNCHANGED <<rgb, x256, win_pixels, best, args>>

NextLife == Resize \/ reconfig \/ draw_image \/ flip_page

SpecLife == InitLife /\ [][NextLife]_vars

(***************************************************************************)
(* Properties of rgb_to_x256 (SpecQuant)                                   *)
(***************************************************************************)

\* The xterm-256 palette: the colour (r, g, b) of entry idx in 16..255.
XtermLevels == <<0, 95, 135, 175, 215, 255>>

PaletteColor(idx) ==
    IF idx < 232
    THEN <<XtermLevels[((idx - 16) \div 36) + 1],
           XtermLevels[(((idx - 16) \div 6) % 6) + 1],
           XtermLevels[((idx - 16) % 6) + 1]>>
    ELSE <<8 + 10 * (idx - 232), 8 + 10 * (idx - 232), 8 + 10 * (idx - 232)>>

\* Squared Euclidean distance of palette entry idx to the colour c.
PaletteDist(idx, c) ==
    LET p == PaletteColor(idx)
    IN  (p[1] - c.r) * (p[1] - c.r) + (p[2] - c.g) * (p[2] - c.g)
        + (p[3] - c.b) * (p[3] - c.b)

CubeEntries == 16..231
GrayEntries == 232..255

\* The least distance of an entry of the set S to the colour c.
BestDist(S, c) ==
    CHOOSE d \in {PaletteDist(k, c) : k \in S} :
        \A k \in S : d <= PaletteDist(k, c)

Gray118 == [r |-> 118, g |-> 118, b |-> 118]
Gray4 == [r |-> 4, g |-> 4, b |-> 4]

\* C1: the index rgb_to_x256 returns is in 16..255, no entry of the 216 cube
\* colours and 24 grays is nearer to the input than the returned one, and a
\* gray is returned only when it is nearer than every cube entry (the cube
\* entry is returned whenever the best cube distance is <= the best gray one).
C1_NearestEntry ==
    x256 # NoResult =>
        LET d == IF x256 \in 16..255 THEN PaletteDist(x256, rgb) ELSE NoResult
        IN  /\ x256 \in 16..255
            /\ \A k \in 16..255 : d <= PaletteDist(k, rgb)
            /\ x256 \in GrayEntries =>
                    \A k \in CubeEntries : d < PaletteDist(k, rgb)

\* A non-gray input whose nearest cube and gray entries tie, resolved to the
\* cube.
C1_Witness ==
    /\ x256 \in CubeEntries
    /\ rgb.r # rgb.g
    /\ BestDist(GrayEntries, rgb) = PaletteDist(x256, rgb)

\* C2 as claimed: for r = g = b = 118 the cube and the gray candidate are at
\* the same distance and the cube index is returned.
C2_TieAt118 ==
    (x256 # NoResult /\ rgb = Gray118) =>
        /\ BestDist(CubeEntries, rgb) = BestDist(GrayEntries, rgb)
        /\ x256 \in CubeEntries

\* C2 amended: for r = g = b = 118 the gray candidate is exact (distance 0)
\* and the cube candidate is at distance 867, so gray index 243 is returned;
\* r = g = b = 4 is a tie (both at distance 48) and returns cube index 16.
C2_GrayAt118_TieAt4 ==
    /\ (x256 # NoResult /\ rgb = Gray118) =>
            /\ BestDist(GrayEntries, rgb) = 0
            /\ BestDist(CubeEntries, rgb) = 867
            /\ x256 = 243
    /\ (x256 # NoResult /\ rgb = Gray4) =>
            /\ BestDist(GrayEntries, rgb) = 48
            /\ BestDist(CubeEntries, rgb) = 48
            /\ x256 = 16

C2_Witness == x256 # NoResult /\ rgb = Gray118

(***************************************************************************)
(* Properties of guess_best_block_element and best_fg_bg (SpecFit)         *)
(***************************************************************************)

Fitted == best.elem # NoResult

\* Every pixel of the window has the same colour.
Uniform(win) == \A j \in 1..WINDOW_SZ : win[j] = win[1]

\* The left 4 columns have one colour and the right 4 columns another.
LeftRightSplit(win) ==
    /\ win[1] # win[5]
    /\ \A j \in 1..WINDOW_SZ :
          win[j] = IF (j - 1) % WINDOW_W < 4 THEN win[1] ELSE win[5]

\* C3: guess_best_block_element returns the element whose loss, as
\* best_fg_bg computes it, is least among the 19, the lowest-numbered one
\* when several share that loss, with that element's glyph and mean colours;
\* a window of one colour gives loss 0 for every element and returns
\* LOWER_HALF with both colours equal to the window's.
C3_LeastLossFirstWins ==
    Fitted =>
        /\ best.elem \in 0..(NUM_ELEMENTS - 1)
        /\ Len(best.calls) = NUM_ELEMENTS
        /\ \A e \in 1..NUM_ELEMENTS :
              best.calls[best.elem + 1].loss <= best.calls[e].loss
        /\ \A e \in 1..best.elem :
              best.calls[best.elem + 1].loss < best.calls[e].loss
        /\ best.fg = best.calls[best.elem + 1].mean_fg
        /\ best.bg = best.calls[best.elem + 1].mean_bg
        /\ best.utf8 = block_elements[best.elem + 1].utf8
        /\ Uniform(win_pixels) =>
              /\ \A e \in 1..NUM_ELEMENTS : best.calls[e].loss = 0
              /\ best.elem = LOWER_HALF
              /\ best.utf8 = <<226, 150, 132>>
              /\ best.fg = win_pixels[1]
              /\ best.bg = win_pixels[1]

\* A window that is not of one colour, fitted, where a later element has the
\* same least loss as the returned one.
C3_Witness ==
    /\ Fitted
    /\ ~Uniform(win_pixels)
    /\ \E e \in 1..NUM_ELEMENTS :
          /\ e > best.elem + 1
          /\ best.calls[e].loss = best.calls[best.elem + 1].loss

\* C4: a window whose left 4 columns are colour A and right 4 columns a
\* different colour B is fitted by LEFT_HALF (mask 11110000 in every row)
\* with loss 0, foreground mean A and background mean B.
C4_LeftHalfOnVerticalEdge ==
    (Fitted /\ LeftRightSplit(win_pixels)) =>
        /\ best.elem = LEFT_HALF
        /\ best.utf8 = <<226, 150, 140>>
        /\ \A j \in 1..WINDOW_SZ :
              block_elements[LEFT_HALF + 1].bitmap[j]
                  = IF (j - 1) % WINDOW_W < 4 THEN 1 ELSE 0
        /\ best.calls[LEFT_HALF + 1].loss = 0
        /\ best.fg = win_pixels[1]
        /\ best.bg = win_pixels[5]

C4_Witness == Fitted /\ LeftRightSplit(win_pixels)

\* C9: every one of the 19 bitmaps has 64 bits with at least one set and at
\* least one clear, and every call of best_fg_bg ends its loop with
\* num_fg > 0, num_bg > 0, num_fg + num_bg = 64, so no mean divides by zero.
C9_BothSubsetsNonEmpty ==
    /\ \A e \in 1..NUM_ELEMENTS :
          /\ Len(block_elements[e].bitmap) = WINDOW_SZ
          /\ \E j \in 1..WINDOW_SZ : block_elements[e].bitmap[j] = 1
          /\ \E j \in 1..WINDOW_SZ : block_elements[e].bitmap[j] = 0
    /\ Len(block_elements) = NUM_ELEMENTS
    /\ Fitted =>
          \A e \in 1..NUM_ELEMENTS :
              LET c == best.calls[e]
              IN  /\ c.sums.num_fg > 0
                  /\ c.sums.num_bg > 0
                  /\ c.sums.num_fg + c.sums.num_bg = WINDOW_SZ
                  /\ DivTrap \notin {c.mean_fg.r, c.mean_fg.g, c.mean_fg.b,
                                     c.mean_bg.r, c.mean_bg.g, c.mean_bg.b}

\* A fitted window for which some element has a one-pixel-wide foreground.
C9_Witness ==
    /\ Fitted
    /\ \E e \in 1..NUM_ELEMENTS : best.calls[e].sums.num_fg = WINDOW_H

\* The count, sum and sum of squares behind each of the six loss terms of a
\* best_fg_bg call, in the order of the terms.
TermSums(c) ==
    <<<<c.sums.num_fg, c.sums.sum_fg_r, c.sums.sum_fg2_r>>,
      <<c.sums.num_fg, c.sums.sum_fg_g, c.sums.sum_fg2_g>>,
      <<c.sums.num_fg, c.sums.sum_fg_b, c.sums.sum_fg2_b>>,
      <<c.sums.num_bg, c.sums.sum_bg_r, c.sums.sum_bg2_r>>,
      <<c.sums.num_bg, c.sums.sum_bg_g, c.sums.sum_bg2_g>>,
      <<c.sums.num_bg, c.sums.sum_bg_b, c.sums.sum_bg2_b>>>>

\* C10: each of the six loss terms of every best_fg_bg call is n times the
\* variance of its subset's channel values, n * term = n * sum(x^2) -
\* (sum x)^2, and the loss is not negative.
C10_TermIsNTimesVariance ==
    Fitted =>
        \A e \in 1..NUM_ELEMENTS :
            /\ best.calls[e].loss >= 0
            /\ \A k \in 1..6 :
                  LET t == TermSums(best.calls[e])[k]
                  IN  t[1] * best.calls[e].terms[k]
                          = t[1] * t[3] - t[2] * t[2]

(***************************************************************************)
(* Properties of the rendered stream (SpecRender)                          *)
(***************************************************************************)

Rendered == out # <<>>

\* Byte ch (0: b, 1: g, 2: r) of pixel (x, y) of the frame.
PixelByte(source, x, y, ch) == source.data[y * source.stride + 3 * x + ch + 1]

\* Tokens of one cell, and of one row without a newline.
CellTokens == IF args.algo = ALGO_PLAIN THEN 2 ELSE 3
RowTokens == CellTokens * args.swidth + 2

\* C5: in the half-block strategy in true colour, cell (x, y) is the
\* background escape with the colour of pixel (x, 2y), then the foreground
\* escape with the colour of pixel (x, 2y + 1), then the lower half block,
\* with nothing between them, and the row's last cell is followed by the
\* reset; the 1-wide 2-high frame with top (B=10,G=20,R=30) and bottom
\* (B=40,G=50,R=60) gives exactly 48;2;30;20;10m 38;2;60;50;40m, the glyph
\* and the reset.
C5_HalfBlockCells ==
    (Rendered /\ args.algo = ALGO_HALF_BLOCKS /\ ~args.term256) =>
        LET T == Tokens(out)
            src == args.source
        IN  /\ Len(T) = args.sheight * RowTokens + 1
            /\ \A y \in 0..(args.sheight - 1) :
                  /\ \A x \in 0..(args.swidth - 1) :
                        LET at == y * RowTokens + 1 + 3 * x
                        IN  /\ T[at + 1] = TokBg(PixelByte(src, x, 2 * y, 2),
                                                 PixelByte(src, x, 2 * y, 1),
                                                 PixelByte(src, x, 2 * y, 0))
                            /\ T[at + 2] =
                                  TokFg(PixelByte(src, x, 2 * y + 1, 2),
                                        PixelByte(src, x, 2 * y + 1, 1),
                                        PixelByte(src, x, 2 * y + 1, 0))
                            /\ T[at + 3] = TokGlyph(<<226, 150, 132>>)
                  /\ T[(y + 1) * RowTokens] = TokReset
            /\ (/\ args.swidth = 1 /\ args.sheight = 1
                /\ SubSeq(src.data, 1, 3) = <<10, 20, 30>>
                /\ SubSeq(src.data, src.stride + 1, src.stride + 3)
                      = <<40, 50, 60>>)
               => SubSeq(out, Len(out) - 39, Len(out) - 1)
                     = <<27, 91, 52, 56, 59, 50, 59, 51, 48, 59, 50, 48,
                         59, 49, 48, 109,
                         27, 91, 51, 56, 59, 50, 59, 54, 48, 59, 53, 48,
                         59, 52, 48, 109,
                         226, 150, 132,
                         27, 91, 48, 109>>

\* The 1-wide 2-high frame of the example, rendered.
C5_Witness ==
    /\ Rendered /\ args.algo = ALGO_HALF_BLOCKS /\ ~args.term256
    /\ args.swidth = 1 /\ args.sheight = 1
    /\ SubSeq(args.source.data, 1, 3) = <<10, 20, 30>>
    /\ SubSeq(args.source.data, args.source.stride + 1,
              args.source.stride + 3) = <<40, 50, 60>>

IsReset(t) == t = TokReset
IsNewline(t) == t = TokNewline

\* Row y of the stream T, rows being n tokens apart: one cursor position,
\* swidth cells of colour sequence(s) and a glyph, one reset.
RowShape(T, y, n) ==
    /\ IsGoto(T[y * n + 1])
    /\ \A x \in 0..(args.swidth - 1) :
          LET at == y * n + 1 + CellTokens * x
          IN  /\ IsBg(T[at + 1])
              /\ CellTokens = 3 => IsFg(T[at + 2])
              /\ IsCell(T[at + CellTokens])
    /\ IsReset(T[y * n + RowTokens])

\* C6 as claimed: every row is a cursor position, its cells, a reset and a
\* newline, so a frame holds sheight of each of the three and each newline
\* directly follows a reset.
C6_NewlinePerRow ==
    Rendered =>
        LET T == Tokens(out)
        IN  /\ Len(T) = args.sheight * (RowTokens + 1)
            /\ \A y \in 0..(args.sheight - 1) :
                  /\ RowShape(T, y, RowTokens + 1)
                  /\ IsNewline(T[(y + 1) * (RowTokens + 1)])
            /\ Count(T, IsGoto) = args.sheight
            /\ Count(T, IsReset) = args.sheight
            /\ Count(T, IsNewline) = args.sheight

\* C6 amended: every row is a cursor position, its cells and a reset, rows
\* in top-to-bottom order, and one newline ends the frame after the last
\* row's reset: sheight cursor positions, sheight resets, one newline.
C6_NewlinePerFrame ==
    Rendered =>
        LET T == Tokens(out)
        IN  /\ Len(T) = args.sheight * RowTokens + 1
            /\ \A y \in 0..(args.sheight - 1) :
                  /\ RowShape(T, y, RowTokens)
                  /\ T[y * RowTokens + 1].params[1]
                        = T[1].params[1] + y
            /\ IsNewline(T[Len(T)])
            /\ IsReset(T[Len(T) - 1])
            /\ Count(T, IsGoto) = args.sheight
            /\ Count(T, IsReset) = args.sheight
            /\ Count(T, IsNewline) = 1

\* A rendered frame of more than one row and more than one column.
C6_Witness ==
    /\ Rendered /\ args.sheight > 1 /\ args.swidth > 1
    /\ args.algo = ALGO_ALL_BLOCKS

\* The offset the claims describe: half the room left over, 0 when the
\* content is larger than the terminal.
ClampedOffset(d, s) == IF s <= d THEN (d - s) \div 2 ELSE 0

C8_CursorOneBased ==
    (Rendered /\ args.swidth <= args.dwidth /\ args.sheight <= args.dheight)
    =>
        LET T == Tokens(out)
        IN  /\ \A k \in 1..Len(T) :
                  IsGoto(T[k]) => T[k].params[1] >= 1 /\ T[k].params[2] >= 1
            /\ args.dheight - args.sheight \in {0, 1} => T[1].params[1] = 1
            /\ args.dwidth - args.swidth \in {0, 1} => T[1].params[2] = 1

(***************************************************************************)
(* Properties of the frame buffer over the callbacks (SpecLife)            *)
(***************************************************************************)

\* C11: every frame flip_page renders comes from a buffer that is allocated,
\* has the size swidth * mul_w by sheight * mul_h of the current geometry
\* and has been filled by draw_image since it was allocated: flip_page
\* renders no unfilled and no absent buffer, and no call meets a NULL
\* p->frame.
C11_RendersFilledFrame ==
    /\ ~vo.crashed
    /\ vo.shown.state # "none" =>
          /\ vo.shown.state = "filled"
          /\ vo.shown.w = vo.shown.want_w
          /\ vo.shown.h = vo.shown.want_h

============================================================================
